---------------------------- MODULE Spec2Model ----------------------------
(***************************************************************************)
(* Model of the price-acquisition hook useBtcPrice: the rate-limited,      *)
(* retrying fetcher fetchWithRetry, the localStorage cache, and the        *)
(* refresh lifecycle fetchBtcPrice driven by the mount effect, the         *)
(* interval timer and the manual refresh trigger.                          *)
(*                                                                         *)
(* The repository holds the hook twice: the revision the application       *)
(* imports, src/src/components/LiveBtcPrice/useBtcPrice.ts ("current"),    *)
(* and an earlier one, src/unnamed/part_000 ("earlier").  The variable rev *)
(* says which of the two an instance runs; where the revisions differ the  *)
(* definitions below take rev as a parameter.                              *)
(*                                                                         *)
(* JavaScript is single-threaded: a handler runs from one await to the     *)
(* next without interleaving, so every action below is one such run.       *)
(* Time is Date.now() in milliseconds.  A call of a state setter is a      *)
(* publication: the state cell takes the value handed to the setter.       *)
(***************************************************************************)
EXTENDS Integers, Sequences, FiniteSets, TLC

VARIABLES
    rev,              \* the revision of the hook this instance runs
    now,              \* Date.now()
    phase,            \* "fresh" before the mount effect, "active", "torn" after cleanup
    tickerItems,      \* useState: the published item sequence
    isLoading,        \* useState: the published loading flag
    error,            \* useState: the published error string or NoError
    lastUpdated,      \* useState: the published last-successful timestamp or NoTime
    isLoadingSeen,    \* the isLoading binding the memoized fetchBtcPrice closed over
    isMounted,        \* useRef: isMounted.current
    nextTickAt,       \* due time of the setInterval timer, NoTime when none is set
    cache,            \* localStorage[CACHE_KEY]
    rate,             \* localStorage[RATE_LIMIT_KEY]
    calls,            \* the suspended fetchBtcPrice invocations, oldest first
    lastInvoke,       \* how the latest fetchBtcPrice invocation left its synchronous part
    lastDone,         \* how the latest invocation that reached its finally block ended
    lastRun,          \* the requests that invocation issued, and what ended it
    probe             \* the result of a function applied on its own, NoProbe before

vars == <<rev, now, phase, tickerItems, isLoading, error, lastUpdated, isLoadingSeen,
          isMounted, nextTickAt, cache, rate, calls, lastInvoke, lastDone, lastRun, probe>>

-----------------------------------------------------------------------------
(* Program constants.  The names are those of the current revision; the    *)
(* earlier revision's values carry the suffix _0.                          *)

Revisions == {"current", "earlier"}

CACHE_DURATION == 5 * 60 * 1000
CACHE_DURATION_0 == 2 * 60 * 1000
REFRESH_INTERVAL == 5 * 60 * 1000
REFRESH_INTERVAL_0 == 2 * 60 * 1000
RATE_LIMIT_WINDOW == 60 * 1000
MAX_RETRIES == 1
MAX_RETRIES_0 == 2
BASE_BACKOFF == 3000
BASE_BACKOFF_0 == 2000
RATE_LIMIT_CEILING == 5
RATE_LIMIT_CEILING_0 == 10
ADMIT_BUFFER == 1000
REQUEST_DELAY == 500
COOLDOWN_429 == 30000
MAX_BACKOFF == 30000
JITTER_CEILING == 1000
\* the age below which fetchBtcPrice skips the network call
SKIP_WINDOW_0 == 60000

CacheDuration(r) == IF r = "current" THEN CACHE_DURATION ELSE CACHE_DURATION_0
SkipWindow(r) == IF r = "current" THEN CACHE_DURATION ELSE SKIP_WINDOW_0
RefreshInterval(r) == IF r = "current" THEN REFRESH_INTERVAL ELSE REFRESH_INTERVAL_0
MaxRetries(r) == IF r = "current" THEN MAX_RETRIES ELSE MAX_RETRIES_0
BaseBackoff(r) == IF r = "current" THEN BASE_BACKOFF ELSE BASE_BACKOFF_0
RateLimitCeiling(r) == IF r = "current" THEN RATE_LIMIT_CEILING ELSE RATE_LIMIT_CEILING_0

(* Bounds of the model *)

MaxInFlight == 1

\* null, for a price or a change (numbers are tuples, see below)
Null == <<"null">>
\* null, for the error string
NoError == "null"
\* null, for a timestamp or a timer
NoTime == 0 - 1

\* localStorage values: nothing stored, a string JSON.parse rejects, or a record
NoProbe == [kind |-> "none"]
Absent == [kind |-> "absent"]
Malformed == [kind |-> "malformed"]

ERR_FETCH == "Failed to fetch live data. Using cached data if available."

-----------------------------------------------------------------------------
(* JavaScript numbers: a finite value is a reduced fraction <<n, d>>, d > 0; *)
(* the non-finite values and null are the 1-tuples below.                    *)

NaN == <<"NaN">>
PosInf == <<"Infinity">>
NegInf == <<"-Infinity">>

Abs(x) == IF x < 0 THEN -x ELSE x

RECURSIVE Gcd(_, _)
Gcd(a, b) == IF b = 0 THEN a ELSE Gcd(b, a % b)

Rat(n, d) ==
    LET s == IF d < 0 THEN -1 ELSE 1
        g == Gcd(Abs(n), Abs(d))
    IN  <<(s * n) \div g, (s * d) \div g>>

IsFinite(x) == x \notin {NaN, PosInf, NegInf, Null}

NumSub(x, y) == Rat(x[1] * y[2] - y[1] * x[2], x[2] * y[2])
NumAdd(x, y) == Rat(x[1] * y[2] + y[1] * x[2], x[2] * y[2])
NumMul(x, y) == Rat(x[1] * y[1], x[2] * y[2])

\* x / y on finite operands, with IEEE division by zero
NumDiv(x, y) ==
    IF y[1] = 0
    THEN IF x[1] = 0 THEN NaN ELSE IF x[1] > 0 THEN PosInf ELSE NegInf
    ELSE Rat(x[1] * y[2], x[2] * y[1])

\* v || 0 : the falsy numbers are 0 and NaN
OrZero(v) == IF v = NaN \/ v = <<0, 1>> THEN <<0, 1>> ELSE v

\* JSON.stringify followed by JSON.parse of a number: non-finite becomes null
JsonNumber(v) == IF v \in {NaN, PosInf, NegInf} THEN Null ELSE v

-----------------------------------------------------------------------------
(* Ticker items *)

\* the ids of the useState initial value of tickerItems
ItemIds(r) ==
    IF r = "current" THEN <<"btc-usd", "btc-eur", "btc-eth", "gold-usd">>
    ELSE <<"btc-usd", "btc-eur", "btc-eth", "btc-gold">>

Item(id, price, change) == [id |-> id, currentPrice |-> price, priceChange24h |-> change]

\* useState initial value of tickerItems
InitialItems(r) == [i \in DOMAIN ItemIds(r) |-> Item(ItemIds(r)[i], Null, Null)]

IdsOf(items) == {items[i].id : i \in DOMAIN items}

\* an update of the display that replaces the items with the new ones
replaceTickerItems(prevItems, newItems) == newItems

\* an update of the display that blanks the items the new ones do not name
blankTickerItems(prevItems, newItems) ==
    [i \in DOMAIN prevItems |->
        LET hits == {j \in DOMAIN newItems : newItems[j].id = prevItems[i].id}
        IN  IF hits = {}
            THEN Item(prevItems[i].id, Null, Null)
            ELSE newItems[CHOOSE j \in hits : \A k \in hits : j <= k]]

\* setTickerItems(prev => prev.map(item => found ? {...item, ...found} : item))
updateTickerItems(prevItems, newItems) ==
    [i \in DOMAIN prevItems |->
        LET hits == {j \in DOMAIN newItems : newItems[j].id = prevItems[i].id}
        IN  IF hits = {}
            THEN prevItems[i]
            ELSE newItems[CHOOSE j \in hits : \A k \in hits : j <= k]]

-----------------------------------------------------------------------------
(* Provider responses: response.data keyed by coin id, Missing when the    *)
(* coin is not in the array.                                               *)

Missing == [kind |-> "missing"]

Coin(price, change) == [current_price |-> price, price_change_percentage_24h |-> change]

PayloadFull ==
    [bitcoin |-> Coin(Rat(98000, 1), Rat(12, 10)), ethereum |-> Coin(Rat(19, 1), Rat(5, 10)),
     paxgold |-> Coin(Rat(2000, 1), Rat(0, 1)), gold |-> Missing]

PayloadEthCrash ==
    [bitcoin |-> Coin(Rat(98000, 1), Rat(12, 10)), ethereum |-> Coin(Rat(19, 1), Rat(-100, 1)),
     paxgold |-> Coin(Rat(2000, 1), Rat(0, 1)), gold |-> Missing]

PayloadGold ==
    [bitcoin |-> Coin(Rat(97000, 1), Rat(-3, 1)), ethereum |-> Coin(Rat(20, 1), Rat(1, 1)),
     paxgold |-> Missing, gold |-> Coin(Rat(2100, 1), Rat(1, 2))]

PayloadNoGold ==
    [bitcoin |-> Coin(Rat(98000, 1), Rat(12, 10)), ethereum |-> Coin(Rat(19, 1), Rat(5, 10)),
     paxgold |-> Missing, gold |-> Missing]

PayloadBothCrash ==
    [bitcoin |-> Coin(Rat(98000, 1), Rat(-100, 1)), ethereum |-> Coin(Rat(19, 1), Rat(-100, 1)),
     paxgold |-> Coin(Rat(2000, 1), Rat(0, 1)), gold |-> Missing]

PayloadEvenChange ==
    [bitcoin |-> Coin(Rat(98000, 1), Rat(5, 10)), ethereum |-> Coin(Rat(19, 1), Rat(5, 10)),
     paxgold |-> Coin(Rat(2000, 1), Rat(0, 1)), gold |-> Missing]

\* what the provider can answer to the request for ids=bitcoin,ethereum,pax-gold
\* and to the one for ids=bitcoin,ethereum,gold
PayloadsFor(seq) ==
    IF seq = "primary" THEN {PayloadFull, PayloadEthCrash, PayloadNoGold}
    ELSE {PayloadGold, PayloadNoGold}

\* data['pax-gold'] || data.gold in the current revision, data['pax-gold'] in the earlier
GoldData(r, data) ==
    IF r = "current" /\ data.paxgold = Missing THEN data.gold ELSE data.paxgold

\* !btcData || !ethData || !goldData
Incomplete(r, data) ==
    data.bitcoin = Missing \/ data.ethereum = Missing \/ GoldData(r, data) = Missing

\* goldData.current_price in the current revision, goldData.current_price * 31.1 in the earlier
goldPricePerOz(r, data) ==
    IF r = "current" THEN GoldData(r, data).current_price
    ELSE NumMul(GoldData(r, data).current_price, Rat(311, 10))

btcEthPrice(data) == NumDiv(data.bitcoin.current_price, data.ethereum.current_price)

btcEthChange24h(data) ==
    LET b == data.bitcoin.price_change_percentage_24h
        e == data.ethereum.price_change_percentage_24h
    IN  OrZero(NumDiv(NumSub(b, e), NumAdd(Rat(1, 1), NumDiv(e, Rat(100, 1)))))

updatedItems(r, data) ==
    << Item("btc-usd", data.bitcoin.current_price, data.bitcoin.price_change_percentage_24h),
       Item("btc-eur", NumMul(data.bitcoin.current_price, Rat(9, 10)),
            data.bitcoin.price_change_percentage_24h),
       Item("btc-eth", btcEthPrice(data), btcEthChange24h(data)),
       Item("gold-usd", goldPricePerOz(r, data),
            GoldData(r, data).price_change_percentage_24h) >>

-----------------------------------------------------------------------------
(* Quote cache *)

JsonItems(items) ==
    [i \in DOMAIN items |->
        Item(items[i].id, JsonNumber(items[i].currentPrice), JsonNumber(items[i].priceChange24h))]

\* a cache write that stores nothing
discardCache(items, t) == Absent

\* the value stored under CACHE_KEY by saveToCache(items) at time t
\* a cache write that dates the record one millisecond early
saveToCacheEarly(items, t) ==
    [kind |-> "record", items |-> JsonItems(items), lastUpdated |-> t - 1]

saveToCache(items, t) ==
    [kind |-> "record", items |-> JsonItems(items), lastUpdated |-> t]

\* stored text that parses to null, a number or a string: reading its
\* lastUpdated throws or gives undefined
Scalar == [kind |-> "scalar"]

\* stored text that parses to an object with a numeric lastUpdated whose items
\* are not an array
Misshapen(t) == [kind |-> "misshapen", lastUpdated |-> t]

\* the parsed value, or Absent (null): nothing stored, unparsable, no numeric
\* lastUpdated, or not younger than CACHE_DURATION.  Nothing but lastUpdated is
\* looked at.
getCachedData(r, stored, t) ==
    IF stored.kind \notin {"record", "misshapen"} THEN Absent
    ELSE IF t - stored.lastUpdated < CacheDuration(r) THEN stored
    ELSE Absent

-----------------------------------------------------------------------------
(* Retrying fetcher.  A run of fetchWithRetry between two awaits yields    *)
(* [rate, pc, wakeAt, retries, backoff]: the stored counter, the await it  *)
(* stopped at ("net" when it issued the request and awaits the answer,     *)
(* "threw" when it rejected), when a sleep ends, and the arguments of the  *)
(* running attempt.                                                        *)

RateRecord(ts, n) == [kind |-> "record", timestamp |-> ts, count |-> n]

Min(a, b) == IF a < b THEN a ELSE b

FetchState(rt, pc, wake, retries, backoff) ==
    [rate |-> rt, pc |-> pc, wakeAt |-> wake, retries |-> retries, backoff |-> backoff]

\* the counter is persisted; the current revision then sleeps 500 ms before the
\* request, the earlier one issues it at once
fwrAdmitted(r, rt, t, retries, backoff) ==
    IF r = "current"
    THEN FetchState(rt, "delay", t + REQUEST_DELAY, retries, backoff)
    ELSE FetchState(rt, "net", NoTime, retries, backoff)

\* a retry check that gives up one attempt later
fwrRetryCheckLate(rt, t, retries, backoff, jitter) ==
    IF retries < 0
    THEN FetchState(rt, "threw", NoTime, retries, backoff)
    ELSE FetchState(rt, "backoff", t + backoff + jitter, retries, backoff)

\* no retries left: throw error; otherwise sleep backoff + jitter before the
\* recursive call
fwrRetryCheck(rt, t, retries, backoff, jitter) ==
    IF retries <= 0
    THEN FetchState(rt, "threw", NoTime, retries, backoff)
    ELSE FetchState(rt, "backoff", t + backoff + jitter, retries, backoff)

\* the catch block up to its first await.  Only the current revision looks at
\* error.response.status; in the earlier one a 429 is an error like any other
\* (its test of response.status follows a resolved request, and axios rejects
\* every status outside 2xx).
fwrCatch(r, rt, t, retries, backoff, is429, jitter) ==
    IF r = "current" /\ is429
    THEN FetchState(rt, "cooldown", t + COOLDOWN_429, retries, backoff)
    ELSE fwrRetryCheck(rt, t, retries, backoff, jitter)

\* an entry that reads an unparsable counter as no counter
fwrEnterLenient(r, rt, t, retries, backoff, jitter) ==
    IF rt.kind \in {"malformed", "absent"}
    THEN fwrAdmitted(r, RateRecord(t, 1), t, retries, backoff)
    ELSE IF t - rt.timestamp > RATE_LIMIT_WINDOW
    THEN fwrAdmitted(r, RateRecord(t, 1), t, retries, backoff)
    ELSE IF rt.count >= RateLimitCeiling(r)
    THEN FetchState(rt, "admitWait",
                    t + ((rt.timestamp + RATE_LIMIT_WINDOW) - t)
                      + (IF r = "current" THEN ADMIT_BUFFER ELSE 0),
                    retries, backoff)
    ELSE fwrAdmitted(r, RateRecord(rt.timestamp, rt.count + 1), t, retries, backoff)

\* fetchWithRetry(url, options, retries, backoff) from its entry to its first
\* await.  JSON.parse of an unparsable counter throws: inside the try block in the
\* current revision, before it in the earlier one.
fwrEnter(r, rt, t, retries, backoff, jitter) ==
    IF rt.kind = "malformed"
    THEN IF r = "current"
         THEN fwrCatch(r, rt, t, retries, backoff, FALSE, jitter)
         ELSE FetchState(rt, "threw", NoTime, retries, backoff)
    ELSE IF rt.kind = "absent"
    THEN fwrAdmitted(r, RateRecord(t, 1), t, retries, backoff)
    ELSE IF t - rt.timestamp > RATE_LIMIT_WINDOW
    THEN fwrAdmitted(r, RateRecord(t, 1), t, retries, backoff)
    ELSE IF rt.count >= RateLimitCeiling(r)
    THEN FetchState(rt, "admitWait",
                    t + ((rt.timestamp + RATE_LIMIT_WINDOW) - t)
                      + (IF r = "current" THEN ADMIT_BUFFER ELSE 0),
                    retries, backoff)
    ELSE fwrAdmitted(r, RateRecord(rt.timestamp, rt.count + 1), t, retries, backoff)

\* after the rate-limit wait: reset the counter to a window of one call
fwrAfterAdmitWait(r, t, retries, backoff) ==
    fwrAdmitted(r, RateRecord(t, 1), t, retries, backoff)

\* after the 500 ms delay: the request is issued
fwrAfterDelay(rt, retries, backoff) == FetchState(rt, "net", NoTime, retries, backoff)

\* after the 30 s cooldown: reset the counter to 0, then the retry check
fwrAfterCooldown(t, retries, backoff, jitter) ==
    fwrRetryCheck(RateRecord(t, 0), t, retries, backoff, jitter)

\* a recursive call that passes the backoff on as it is
fwrAfterBackoffFlat(r, rt, t, retries, backoff, jitter) ==
    fwrEnter(r, rt, t, retries - 1, backoff, jitter)

\* a recursive call that goes to the request past the rate check
fwrAfterBackoffUnchecked(r, rt, t, retries, backoff, jitter) ==
    fwrAdmitted(r, rt, t, retries - 1, Min(backoff * 2, MAX_BACKOFF))

\* after the backoff sleep: the recursive call
fwrAfterBackoff(r, rt, t, retries, backoff, jitter) ==
    fwrEnter(r, rt, t, retries - 1, Min(backoff * 2, MAX_BACKOFF), jitter)

-----------------------------------------------------------------------------
(* fetchBtcPrice.  Its steps map a record w of the mutable state           *)
(* (React state, localStorage, suspended calls, last outcomes) to the next *)
(* one.                                                                    *)

World ==
    [tickerItems |-> tickerItems, isLoading |-> isLoading, error |-> error,
     lastUpdated |-> lastUpdated, cache |-> cache, rate |-> rate, calls |-> calls,
     lastInvoke |-> lastInvoke, lastDone |-> lastDone, lastRun |-> lastRun]

Install(w) ==
    /\ tickerItems' = w.tickerItems
    /\ isLoading' = w.isLoading
    /\ error' = w.error
    /\ lastUpdated' = w.lastUpdated
    /\ cache' = w.cache
    /\ rate' = w.rate
    /\ calls' = w.calls
    /\ lastInvoke' = w.lastInvoke
    /\ lastDone' = w.lastDone
    /\ lastRun' = w.lastRun

RemoveAt(q, i) == [k \in 1..(Len(q) - 1) |-> IF k < i THEN q[k] ELSE q[k + 1]]

\* what is remembered of an invocation that ended: the requests it issued and
\* whether a rejection ("rejected"), a response ("ok", "incomplete") or a fresh
\* cached record ("fresh") ended it
Run(attempts, cause) == [attempts |-> attempts, cause |-> cause]

\* call i ends: it leaves the suspended invocations
endCall(w, i, cause) ==
    [w EXCEPT !.lastRun = Run(w.calls[i].attempts, cause), !.calls = RemoveAt(@, i)]

\* a fetchBtcPrice invocation about to call fetchWithRetry; attempts counts the
\* requests it issued, failures those the provider rejected, slotAtEntry is what
\* localStorage held for the cache key and
\* usedAtEntry whether getCachedData returned a record that was then published
NewCall(r, slotKind, used) ==
    [pc |-> "new", seq |-> "primary", wakeAt |-> NoTime, retries |-> MaxRetries(r),
     backoff |-> BaseBackoff(r), attempts |-> 0, failures |-> 0, slotAtEntry |-> slotKind,
     usedAtEntry |-> used]

\* a loading guard that lets every invocation through (the guard removed)
loadingGuardOff(live, seen) == FALSE

\* the guard "if (isLoading) return": live is the current state, seen the binding
\* of the closure.  useCallback's dependency list [saveToCache, updateTickerItems]
\* never changes, so the function of the first render is the one every caller uses.
loadingGuard(live, seen) == seen

\* a mounted guard that lets every invocation through (the guard removed)
mountedGuardOff(mounted) == FALSE

\* the guard "if (!isMounted.current) return"
mountedGuard(mounted) == ~mounted

\* updateTickerItems(cachedData.items); setLastUpdated(cachedData.lastUpdated)
publishCached(w, c) ==
    [w EXCEPT !.tickerItems = updateTickerItems(@, c.items), !.lastUpdated = c.lastUpdated]

\* a finally block that leaves the loading flag as it is
finallyBlockOff(w, mounted) == w

\* finally { if (isMounted.current) setIsLoading(false) }
finallyBlock(w, mounted) == IF mounted THEN [w EXCEPT !.isLoading = FALSE] ELSE w

\* a rejection that no catch block handles
failurePathEscapes(r, w, t, mounted) == [w EXCEPT !.lastDone = "escaped"]

\* a catch block that publishes nothing
failurePathSilent(r, w, t, mounted) == [finallyBlock(w, mounted) EXCEPT !.lastDone = "failed"]

\* catch (err) { setError(..); re-publish what getCachedData returns } finally {..}
failurePath(r, w, t, mounted) ==
    LET w1 == [w EXCEPT !.error = ERR_FETCH]
        c == getCachedData(r, w1.cache, t)
        w2 == IF c.kind = "record" THEN publishCached(w1, c) ELSE w1
    IN  [finallyBlock(w2, mounted) EXCEPT !.lastDone = "failed"]

\* the statements after the awaited fetchWithRetry returned a response
successPath(r, w, t, data, mounted) ==
    IF Incomplete(r, data)
    THEN failurePath(r, w, t, mounted)
    ELSE LET items == updatedItems(r, data)
             w1 == [w EXCEPT !.tickerItems = updateTickerItems(@, items),
                             !.lastUpdated = t,
                             !.cache = saveToCache(items, t)]
         IN  [finallyBlock(w1, mounted) EXCEPT !.lastDone = "succeeded"]

\* a refresh that answers every rejection of fetchWithRetry with another sequence
settleAlways(r, w, t, i, f, mounted, jitter) ==
    LET w1 == [w EXCEPT !.rate = f.rate]
        g == fwrEnter(r, w1.rate, t, MaxRetries(r), BaseBackoff(r), jitter)
    IN  IF f.pc # "threw"
        THEN [w1 EXCEPT !.calls[i].pc = f.pc, !.calls[i].wakeAt = f.wakeAt,
                        !.calls[i].retries = f.retries, !.calls[i].backoff = f.backoff,
                        !.calls[i].attempts = IF f.pc = "net" THEN @ + 1 ELSE @]
        ELSE IF r = "current"
        THEN [w1 EXCEPT !.rate = g.rate, !.calls[i].seq = "fallback",
                        !.calls[i].pc = g.pc, !.calls[i].wakeAt = g.wakeAt,
                        !.calls[i].retries = g.retries, !.calls[i].backoff = g.backoff]
        ELSE failurePath(r, endCall(w1, i, "rejected"), t, mounted)

\* call i takes the fetch state f: it stays suspended, or fetchWithRetry rejected.
\* In the current revision the rejected primary request is followed by the
\* fallback one; otherwise the catch block runs.
RECURSIVE settle(_, _, _, _, _, _, _)
settle(r, w, t, i, f, mounted, jitter) ==
    LET w1 == [w EXCEPT !.rate = f.rate]
    IN  IF f.pc # "threw"
        THEN [w1 EXCEPT !.calls[i].pc = f.pc, !.calls[i].wakeAt = f.wakeAt,
                        !.calls[i].retries = f.retries, !.calls[i].backoff = f.backoff,
                        !.calls[i].attempts = IF f.pc = "net" THEN @ + 1 ELSE @]
        ELSE IF r = "current" /\ w1.calls[i].seq = "primary"
        THEN settle(r, [w1 EXCEPT !.calls[i].seq = "fallback"], t, i,
                    fwrEnter(r, w1.rate, t, MaxRetries(r), BaseBackoff(r), jitter),
                    mounted, jitter)
        ELSE failurePath(r, endCall(w1, i, "rejected"), t, mounted)

\* a refresh function that is never entered
fetchBtcPriceNoop(r, w, t, mounted, seen, jitter) == w

\* fetchBtcPrice() from its invocation to its first await or its return
fetchBtcPrice(r, w, t, mounted, seen, jitter) ==
    IF mountedGuard(mounted)
    THEN [w EXCEPT !.lastInvoke = "unmounted"]
    ELSE IF loadingGuard(w.isLoading, seen)
    THEN [w EXCEPT !.lastInvoke = "skipLoading"]
    ELSE LET c == getCachedData(r, w.cache, t)
             w1 == IF c.kind = "record"
                   THEN [publishCached(w, c) EXCEPT !.isLoading = FALSE]
                   ELSE w
         IN  IF c.kind = "record" /\ t - c.lastUpdated < SkipWindow(r)
             THEN [finallyBlock(w1, mounted) EXCEPT !.lastInvoke = "freshCache",
                                                    !.lastDone = "fresh",
                                                    !.lastRun = Run(0, "fresh")]
             ELSE LET w2 == [w1 EXCEPT !.isLoading = TRUE, !.error = NoError,
                                       !.calls = Append(@, NewCall(r, w.cache.kind,
                                                                   c.kind = "record")),
                                       !.lastInvoke = "started"]
                  IN  settle(r, w2, t, Len(w2.calls),
                             fwrEnter(r, w2.rate, t, MaxRetries(r), BaseBackoff(r), jitter),
                             mounted, jitter)

\* timers that fire at once, whatever their delay
ReadyAtOnce(c, t) == TRUE

\* call c may continue: its request is answered, or its sleep is over
Ready(c, t) == IF c.pc = "net" THEN TRUE ELSE t >= c.wakeAt

\* call i runs from the await it is suspended at to the next one
resume(r, w, t, i, kind, data, mounted, jitter) ==
    LET c == w.calls[i]
    IN  CASE c.pc = "admitWait" ->
                settle(r, w, t, i, fwrAfterAdmitWait(r, t, c.retries, c.backoff),
                       mounted, jitter)
          [] c.pc = "delay" ->
                settle(r, w, t, i, fwrAfterDelay(w.rate, c.retries, c.backoff),
                       mounted, jitter)
          [] c.pc = "net" ->
                IF kind = "ok"
                THEN successPath(r, endCall(w, i, IF Incomplete(r, data) THEN "incomplete"
                                                     ELSE "ok"),
                                 t, data, mounted)
                ELSE settle(r, [w EXCEPT !.calls[i].failures = @ + 1], t, i,
                            fwrCatch(r, w.rate, t, c.retries, c.backoff, kind = "429", jitter),
                            mounted, jitter)
          [] c.pc = "cooldown" ->
                settle(r, w, t, i, fwrAfterCooldown(t, c.retries, c.backoff, jitter),
                       mounted, jitter)
          [] c.pc = "backoff" ->
                settle(r, w, t, i,
                       fwrAfterBackoff(r, w.rate, t, c.retries, c.backoff, jitter),
                       mounted, jitter)

-----------------------------------------------------------------------------
(* The instants the clock takes, and what localStorage holds when the hook *)
(* is created.                                                             *)

Start == 4 * CACHE_DURATION

\* the instants the clock is observed at: steps that outlast the short sleeps,
\* every sleep, and the refresh intervals
Offsets ==
    {0, 5000, 70000, 140000, REFRESH_INTERVAL, REFRESH_INTERVAL + 70000,
     REFRESH_INTERVAL + 140000}

Instants == {Start + d : d \in Offsets}

\* Math.random() * 1000, at its two ends
Jitters == {0, JITTER_CEILING - 1}

\* the ages, at Start, of a record a successful fetch of an earlier instance left:
\* one millisecond inside and exactly at each window of the revision
InitialAges(r) ==
    IF r = "current" THEN {CACHE_DURATION - 1, CACHE_DURATION}
    ELSE {SKIP_WINDOW_0 - 1, SKIP_WINDOW_0, CACHE_DURATION_0}

InitialCaches(r) ==
    {Absent, Malformed}
        \cup {saveToCache(updatedItems(r, PayloadFull), Start - a) : a \in InitialAges(r)}

InitialRates(r) ==
    {Absent, Malformed, RateRecord(Start - 1000, RateLimitCeiling(r))}

\* useState(true)
InitialIsLoading == TRUE

\* the hook's own state at creation
InitHook(loading) ==
    /\ rev \in Revisions
    /\ now = Start
    /\ phase = "fresh"
    /\ tickerItems = InitialItems(rev)
    /\ isLoading = loading
    /\ isLoadingSeen = loading
    /\ error = NoError
    /\ lastUpdated = NoTime
    /\ isMounted = TRUE
    /\ nextTickAt = NoTime
    /\ cache \in InitialCaches(rev)
    /\ rate \in InitialRates(rev)
    /\ calls = <<>>
    /\ lastInvoke = "none"
    /\ lastDone = "none"
    /\ lastRun = Run(0, "none")

InitWith(loading) == InitHook(loading) /\ probe = NoProbe

\* the hook as React creates it
Init == InitWith(InitialIsLoading)

\* the hook created in the Idle state of the refresh lifecycle
InitIdle == InitWith(FALSE)

-----------------------------------------------------------------------------
(* Actions *)

\* an invocation of fetchBtcPrice may start a refresh only within the bound
Within(w) == Len(w.calls) <= MaxInFlight

\* useEffect: isMounted.current = true; fetchBtcPrice(); setInterval(.., REFRESH_INTERVAL)
Mount ==
    /\ phase = "fresh"
    /\ \E j \in Jitters :
          LET w == fetchBtcPrice(rev, World, now, TRUE, isLoadingSeen, j)
          IN  Within(w) /\ Install(w)
    /\ phase' = "active"
    /\ isMounted' = TRUE
    /\ nextTickAt' = now + RefreshInterval(rev)
    /\ UNCHANGED <<rev, now, isLoadingSeen, probe>>

\* the effect's cleanup: isMounted.current = false; clearInterval(intervalId)
Cleanup ==
    /\ phase \in {"active", "torn"}
    /\ phase' = "torn"
    /\ isMounted' = FALSE
    /\ nextTickAt' = NoTime
    /\ UNCHANGED <<rev, now, tickerItems, isLoading, error, lastUpdated, isLoadingSeen,
                   cache, rate, calls, lastInvoke, lastDone, lastRun, probe>>

\* the returned refresh function, called by the consumer
ManualRefresh ==
    /\ phase \in {"active", "torn"}
    /\ \E j \in Jitters :
          LET w == fetchBtcPrice(rev, World, now, isMounted, isLoadingSeen, j)
          IN  Within(w) /\ Install(w)
    /\ UNCHANGED <<rev, now, phase, isLoadingSeen, isMounted, nextTickAt, probe>>

\* the interval callback
Tick(j) ==
    /\ nextTickAt # NoTime
    /\ now >= nextTickAt
    /\ LET w == fetchBtcPrice(rev, World, now, isMounted, isLoadingSeen, j)
       IN  Within(w) /\ Install(w)
    /\ nextTickAt' = nextTickAt + RefreshInterval(rev)
    /\ UNCHANGED <<rev, now, phase, isLoadingSeen, isMounted, probe>>

\* a suspended call continues
Resume(i, kind, data, j) ==
    /\ i \in DOMAIN calls
    /\ Ready(calls[i], now)
    /\ Install(resume(rev, World, now, i, kind, data, isMounted, j))
    /\ UNCHANGED <<rev, now, phase, isLoadingSeen, isMounted, nextTickAt, probe>>

\* the answers a suspended call can be resumed with
AnswersFor(c) ==
    IF c.pc = "net"
    THEN {[kind |-> "ok", data |-> d] : d \in PayloadsFor(c.seq)}
            \cup {[kind |-> k, data |-> PayloadNoGold] : k \in {"error", "429"}}
    ELSE {[kind |-> "none", data |-> PayloadNoGold]}

\* one turn of the event loop: a due timer callback or a ready continuation
EventLoopTurn ==
    \E i \in 0..Len(calls), j \in Jitters :
        IF i = 0
        THEN Tick(j)
        ELSE \E a \in AnswersFor(calls[i]) : Resume(i, a.kind, a.data, j)

\* time passes
Advance ==
    /\ \E t \in Instants : t > now /\ now' = t
    /\ UNCHANGED <<rev, phase, tickerItems, isLoading, error, lastUpdated, isLoadingSeen,
                   isMounted, nextTickAt, cache, rate, calls, lastInvoke, lastDone, lastRun, probe>>

Next == Mount \/ Cleanup \/ ManualRefresh \/ EventLoopTurn \/ Advance

\* the hook as the application runs it
Spec == Init /\ [][Next]_vars

\* fetchBtcPrice and its collaborators exercised from the Idle state
SpecIdle == InitIdle /\ [][Next]_vars

-----------------------------------------------------------------------------
(* getCachedData on its own: one read of whatever the cache slot holds *)

\* what localStorage can hold under CACHE_KEY: nothing, text that does not parse,
\* text that parses to something else than a record, and parsed objects of each
\* age of InitialAges with and without an items array
StoredValues(r) ==
    {Absent, Malformed, Scalar}
        \cup {saveToCache(updatedItems(r, PayloadFull), Start - a) : a \in InitialAges(r)}
        \cup {Misshapen(Start - a) : a \in InitialAges(r)}

\* the hook before its mount effect, at any instant, over any stored value
InitRead ==
    /\ rev \in Revisions
    /\ now \in Instants
    /\ phase = "fresh"
    /\ tickerItems = InitialItems(rev)
    /\ isLoading = InitialIsLoading
    /\ isLoadingSeen = InitialIsLoading
    /\ error = NoError
    /\ lastUpdated = NoTime
    /\ isMounted = TRUE
    /\ nextTickAt = NoTime
    /\ cache \in StoredValues(rev)
    /\ rate = Absent
    /\ calls = <<>>
    /\ lastInvoke = "none"
    /\ lastDone = "none"
    /\ lastRun = Run(0, "none")
    /\ probe = NoProbe

\* const cachedData = getCachedData()
Read ==
    /\ probe = NoProbe
    /\ probe' = [kind |-> "read", value |-> getCachedData(rev, cache, now)]
    /\ UNCHANGED <<rev, now, phase, tickerItems, isLoading, error, lastUpdated,
                   isLoadingSeen, isMounted, nextTickAt, cache, rate, calls, lastInvoke,
                   lastDone, lastRun>>

NextRead == Read

SpecRead == InitRead /\ [][NextRead]_vars

-----------------------------------------------------------------------------
(* The comparison calculator: three text fields and a currency, and the     *)
(* result calculations() derives from them at every render.                 *)

\* what the user can type into a field
FieldTexts == {"", "abc", "0", "0.5", "50", "52"}

\* what the user can type into the amount field; '1000' is its initial text
AmountTexts == {"", "0", "10", "1000"}

Currencies == {"USD", "EUR"}

\* parseFloat of the texts above
parseFloat(text) ==
    CASE text = "0" -> Rat(0, 1)
      [] text = "10" -> Rat(10, 1)
      [] text = "50" -> Rat(50, 1)
      [] text = "0.5" -> Rat(1, 2)
      [] text = "52" -> Rat(52, 1)
      [] text = "1000" -> Rat(1000, 1)
      [] OTHER -> NaN

\* !x for a number: true of 0 and NaN
Falsy(x) == x = NaN \/ x = <<0, 1>>

\* x > 0
Positive(x) == IF x = PosInf THEN TRUE ELSE IF x \in {NaN, NegInf} THEN FALSE ELSE x[1] > 0

\* x < y on finite numbers
NumLess(x, y) == x[1] * y[2] < y[1] * x[2]

eurToUsd == Rat(109, 100)

\* convertCurrency(amount, 'EUR', 'USD')
convertCurrency(amount) == NumMul(amount, eurToUsd)

\* calculations(): null, or the derived figures
calculations(price1, price2, investmentAmount, currency) ==
    LET p1 == parseFloat(price1)
        p2 == parseFloat(price2)
        investment == parseFloat(investmentAmount)
    IN  IF Falsy(p1) \/ Falsy(p2) \/ Falsy(investment)
        THEN [kind |-> "null"]
        ELSE LET p1Sel == IF currency = "USD" THEN p1 ELSE convertCurrency(p1)
                 p2Sel == IF currency = "USD" THEN p2 ELSE convertCurrency(p2)
                 btc1 == NumDiv(investment, p1Sel)
                 btc2 == NumDiv(investment, p2Sel)
                 investmentValue1 == NumMul(btc1, p2Sel)
                 investmentValue2 == NumMul(btc2, p2Sel)
                 investmentDiff == NumSub(investmentValue1, investmentValue2)
             IN  [kind |-> "calc", p1Sel |-> p1Sel, p2Sel |-> p2Sel, btc1 |-> btc1,
                  btc2 |-> btc2, investmentDiff |-> investmentDiff,
                  betterDeal |-> IF Positive(investmentDiff) THEN 1 ELSE 2]

\* the calculator component at a render
Form(price1, price2, investmentAmount, currency) ==
    [kind |-> "form", price1 |-> price1, price2 |-> price2,
     investmentAmount |-> investmentAmount, currency |-> currency,
     calc |-> calculations(price1, price2, investmentAmount, currency)]

\* the hook's variables, which the calculator does not touch
hookVars ==
    <<rev, now, phase, tickerItems, isLoading, error, lastUpdated, isLoadingSeen,
      isMounted, nextTickAt, cache, rate, calls, lastInvoke, lastDone, lastRun>>

\* useState(''), useState(''), useState('1000'), useState('USD')
InitCalc ==
    /\ rev = "current"
    /\ now = Start
    /\ phase = "fresh"
    /\ tickerItems = InitialItems(rev)
    /\ isLoading = InitialIsLoading
    /\ isLoadingSeen = InitialIsLoading
    /\ error = NoError
    /\ lastUpdated = NoTime
    /\ isMounted = TRUE
    /\ nextTickAt = NoTime
    /\ cache = Absent
    /\ rate = Absent
    /\ calls = <<>>
    /\ lastInvoke = "none"
    /\ lastDone = "none"
    /\ lastRun = Run(0, "none")
    /\ probe = Form("", "", "1000", "USD")

setPrice1 ==
    /\ \E text \in FieldTexts :
          probe' = Form(text, probe.price2, probe.investmentAmount, probe.currency)
    /\ UNCHANGED hookVars

setPrice2 ==
    /\ \E text \in FieldTexts :
          probe' = Form(probe.price1, text, probe.investmentAmount, probe.currency)
    /\ UNCHANGED hookVars

setInvestmentAmount ==
    /\ \E text \in AmountTexts :
          probe' = Form(probe.price1, probe.price2, text, probe.currency)
    /\ UNCHANGED hookVars

setCurrency ==
    /\ \E c \in Currencies :
          probe' = Form(probe.price1, probe.price2, probe.investmentAmount, c)
    /\ UNCHANGED hookVars

NextCalc == setPrice1 \/ setPrice2 \/ setInvestmentAmount \/ setCurrency

SpecCalc == InitCalc /\ [][NextCalc]_vars

-----------------------------------------------------------------------------
(* fetchWithRetry on its own: callers that invoke it, possibly while an     *)
(* earlier invocation is still suspended, over one persisted counter.       *)

MaxCallers == 2

Callers == 1..MaxCallers

\* no 429 is pending
NoCredit == 0 - 1

\* the error an invocation holds: its kind ("error" a failed request, "429",
\* "parse" the SyntaxError of JSON.parse) and the number of requests the
\* invocation had issued when it was raised
Failure(kind, attempt) == [kind |-> kind, attempt |-> attempt]

NoFailure == Failure("none", 0)

\* the retries and backoff arguments of an invocation: the defaults every call
\* site uses, and a longer budget whose backoff reaches the cap
RetryArgs(r) ==
    {[retries |-> MaxRetries(r), backoff |-> BaseBackoff(r)],
     [retries |-> 3, backoff |-> 8000]}

\* a caller of fetchWithRetry.  last is how its latest invocation ended, waited
\* whether its latest admission followed a rate-limit wait, credit the retries
\* left when the provider last answered it 429 (NoCredit after any other answer),
\* budget and base the arguments of the invocation, attempts the requests it
\* issued, admits the counter writes of its rate check since its last request,
\* caught the error in hand, seen the kinds of the errors it met, thrown the
\* error it rejected with
IdleCaller(r) ==
    [pc |-> "idle", wakeAt |-> NoTime, retries |-> MaxRetries(r), backoff |-> BaseBackoff(r),
     last |-> "none", waited |-> FALSE, credit |-> NoCredit,
     budget |-> MaxRetries(r), base |-> BaseBackoff(r), attempts |-> 0, admits |-> 0,
     caught |-> NoFailure, seen |-> {}, thrown |-> NoFailure]

\* the invocation about to run the rate check: JSON.parse of an unparsable
\* counter raises a SyntaxError
atRateCheck(c, rt) ==
    IF rt.kind = "malformed"
    THEN [c EXCEPT !.caught = Failure("parse", c.attempts), !.seen = @ \cup {"parse"}]
    ELSE c

\* two invocations 300 ms apart, the end of the 500 ms delay of the second, and
\* instants after every longer sleep
LimiterOffsets == {0, 300, 800, 70000, 140000, 210000, 280000}

LimiterInstants == {Start + d : d \in LimiterOffsets}

\* the counter an earlier invocation left: none, unparsable, a window one second
\* old that is full, a window about to expire with one call
LimiterRates(r) ==
    InitialRates(r) \cup {RateRecord((Start + 200) - RATE_LIMIT_WINDOW, 1)}

\* requests issued at or after the timestamp of the persisted window
windowIssuedAfter(rt, f, issued) ==
    (IF f.rate.kind = "record" /\ rt.kind = "record" /\ f.rate.timestamp = rt.timestamp
     THEN issued ELSE 0)
        + (IF f.pc = "net" THEN 1 ELSE 0)

\* caller c after a run of fetchWithRetry that ended in fetch state f
callerAfter(c, f) ==
    IF f.pc = "threw"
    THEN [c EXCEPT !.pc = "idle", !.wakeAt = NoTime, !.retries = f.retries,
                   !.last = "threw", !.thrown = c.caught]
    ELSE [c EXCEPT !.pc = f.pc, !.wakeAt = f.wakeAt, !.retries = f.retries,
                   !.backoff = f.backoff,
                   !.attempts = IF f.pc = "net" THEN @ + 1 ELSE @,
                   !.admits = IF c.pc \in {"idle", "backoff", "admitWait"}
                                 /\ f.pc \in {"delay", "net"}
                              THEN @ + 1 ELSE @]

\* the awaits of one attempt, in the order the attempt reaches them
AwaitRank(pc) ==
    CASE pc = "admitWait" -> 1
      [] pc = "delay" -> 2
      [] pc = "net" -> 3
      [] pc = "cooldown" -> 4
      [] pc = "backoff" -> 5
      [] OTHER -> 0

\* the limiter after caller k, now c, ran to fetch state f
Limiter(k, c, f) ==
    /\ rate' = f.rate
    /\ probe' = [probe EXCEPT !.callers[k] = callerAfter(c, f),
                              !.windowIssued = windowIssuedAfter(rate, f, @)]

\* what the limiter leaves alone
limiterRest ==
    <<phase, tickerItems, isLoading, error, lastUpdated, isLoadingSeen, isMounted,
      nextTickAt, cache, calls, lastInvoke, lastDone, lastRun>>

InitLimiter ==
    /\ rev \in Revisions
    /\ now = Start
    /\ phase = "fresh"
    /\ tickerItems = InitialItems(rev)
    /\ isLoading = InitialIsLoading
    /\ isLoadingSeen = InitialIsLoading
    /\ error = NoError
    /\ lastUpdated = NoTime
    /\ isMounted = TRUE
    /\ nextTickAt = NoTime
    /\ cache = Absent
    /\ rate \in LimiterRates(rev)
    /\ calls = <<>>
    /\ lastInvoke = "none"
    /\ lastDone = "none"
    /\ lastRun = Run(0, "none")
    /\ probe = [kind |-> "limiter", callers |-> [k \in Callers |-> IdleCaller(rev)],
                windowIssued |-> IF rate.kind = "record" THEN rate.count ELSE 0]

\* fetchWithRetry(url, options) is invoked: once by each caller, in their order
Call(k, a, j) ==
    /\ probe.callers[k].pc = "idle"
    /\ probe.callers[k].last = "none"
    /\ \A h \in Callers : h < k => probe.callers[h] # IdleCaller(rev)
    /\ Limiter(k, atRateCheck([IdleCaller(rev) EXCEPT !.retries = a.retries,
                                                      !.backoff = a.backoff,
                                                      !.budget = a.retries,
                                                      !.base = a.backoff], rate),
               fwrEnter(rev, rate, now, a.retries, a.backoff, j))
    /\ UNCHANGED <<rev, now>>
    /\ UNCHANGED limiterRest

\* a sleep of the invocation ends
Wake(k, j) ==
    LET c == probe.callers[k]
    IN  /\ c.pc \in {"admitWait", "delay", "cooldown", "backoff"}
        /\ Ready(c, now)
        /\ CASE c.pc = "admitWait" ->
                    Limiter(k, [c EXCEPT !.waited = TRUE],
                            fwrAfterAdmitWait(rev, now, c.retries, c.backoff))
              [] c.pc = "delay" ->
                    Limiter(k, c, fwrAfterDelay(rate, c.retries, c.backoff))
              [] c.pc = "cooldown" ->
                    Limiter(k, c, fwrAfterCooldown(now, c.retries, c.backoff, j))
              [] c.pc = "backoff" ->
                    Limiter(k, atRateCheck([c EXCEPT !.waited = FALSE], rate),
                            fwrAfterBackoff(rev, rate, now, c.retries, c.backoff, j))
        /\ UNCHANGED <<rev, now>>
        /\ UNCHANGED limiterRest

\* the provider answers the request: a 2xx response, a 429, or another failure
Answer(k, kind, j) ==
    LET c == probe.callers[k]
    IN  /\ c.pc = "net"
        /\ IF kind = "ok"
           THEN /\ probe' = [probe EXCEPT !.callers[k] =
                                [c EXCEPT !.pc = "idle", !.last = "ok", !.credit = NoCredit,
                                          !.admits = 0]]
                /\ rate' = rate
           ELSE Limiter(k, [c EXCEPT !.credit = IF kind = "429" THEN c.retries ELSE NoCredit,
                                     !.admits = 0,
                                     !.caught = Failure(kind, c.attempts),
                                     !.seen = @ \cup {kind}],
                        fwrCatch(rev, rate, now, c.retries, c.backoff, kind = "429", j))
        /\ UNCHANGED <<rev, now>>
        /\ UNCHANGED limiterRest

\* time passes
Elapse ==
    /\ \E t \in LimiterInstants : t > now /\ now' = t
    /\ UNCHANGED <<rev, rate, probe>>
    /\ UNCHANGED limiterRest

NextLimiter ==
    \/ \E k \in Callers, a \in RetryArgs(rev), j \in Jitters : Call(k, a, j)
    \/ \E k \in Callers, j \in Jitters : Wake(k, j)
    \/ \E k \in Callers, kind \in {"ok", "error", "429"}, j \in Jitters : Answer(k, kind, j)
    \/ Elapse

SpecLimiter == InitLimiter /\ [][NextLimiter]_vars

-----------------------------------------------------------------------------
(* From a response to the cache and back: the items fetchBtcPrice derives   *)
(* from a complete response, saveToCache of them, and getCachedData at the  *)
(* same instant.                                                            *)

\* the complete responses of the revision
CompletePayloads(r) ==
    {p \in {PayloadFull, PayloadEthCrash, PayloadGold, PayloadBothCrash, PayloadEvenChange} :
        ~Incomplete(r, p)}

\* a complete response has arrived at some instant; nothing is cached
InitQuotes ==
    /\ rev \in Revisions
    /\ now \in Instants
    /\ phase = "fresh"
    /\ tickerItems = InitialItems(rev)
    /\ isLoading = InitialIsLoading
    /\ isLoadingSeen = InitialIsLoading
    /\ error = NoError
    /\ lastUpdated = NoTime
    /\ isMounted = TRUE
    /\ nextTickAt = NoTime
    /\ cache = Absent
    /\ rate = Absent
    /\ calls = <<>>
    /\ lastInvoke = "none"
    /\ lastDone = "none"
    /\ lastRun = Run(0, "none")
    /\ \E p \in CompletePayloads(rev) : probe = [kind |-> "response", data |-> p]

\* what the quote steps leave alone
quotesRest ==
    <<rev, now, phase, tickerItems, isLoading, error, lastUpdated, isLoadingSeen, isMounted,
      nextTickAt, rate, calls, lastInvoke, lastDone, lastRun>>

\* const updatedItems = [...]
Derive ==
    /\ probe.kind = "response"
    /\ probe' = [kind |-> "derived", data |-> probe.data,
                 items |-> updatedItems(rev, probe.data)]
    /\ UNCHANGED cache
    /\ UNCHANGED quotesRest

\* saveToCache(updatedItems)
Save ==
    /\ probe.kind = "derived"
    /\ cache' = saveToCache(probe.items, now)
    /\ probe' = [kind |-> "saved", data |-> probe.data, items |-> probe.items,
                 savedAt |-> now]
    /\ UNCHANGED quotesRest

\* getCachedData()
Load ==
    /\ probe.kind = "saved"
    /\ probe' = [kind |-> "loaded", data |-> probe.data, items |-> probe.items,
                 savedAt |-> probe.savedAt, value |-> getCachedData(rev, cache, now)]
    /\ UNCHANGED cache
    /\ UNCHANGED quotesRest

NextQuotes == Derive \/ Save \/ Load

SpecQuotes == InitQuotes /\ [][NextQuotes]_vars

-----------------------------------------------------------------------------
(* updateTickerItems on its own: batches that name some of the tracked      *)
(* items, none of them, or items that are not tracked.                      *)

MaxBatch == 2

\* an id no tracked item has
UnknownId == "doge-usd"

\* the items a batch is made of
BatchItems(r) ==
    {Item(id, v, v) : id \in IdsOf(InitialItems(r)) \cup {UnknownId},
                      v \in {Rat(1, 1), Rat(2, 1)}}

\* the batches: every sequence of at most MaxBatch such items
Batches(r) ==
    UNION {[1..n -> BatchItems(r)] : n \in 0..MaxBatch}

InitMerge ==
    /\ rev \in Revisions
    /\ now = Start
    /\ phase = "fresh"
    /\ tickerItems = InitialItems(rev)
    /\ isLoading = InitialIsLoading
    /\ isLoadingSeen = InitialIsLoading
    /\ error = NoError
    /\ lastUpdated = NoTime
    /\ isMounted = TRUE
    /\ nextTickAt = NoTime
    /\ cache = Absent
    /\ rate = Absent
    /\ calls = <<>>
    /\ lastInvoke = "none"
    /\ lastDone = "none"
    /\ lastRun = Run(0, "none")
    /\ probe = NoProbe

\* updateTickerItems(newItems)
Publish(newItems) ==
    /\ tickerItems' = updateTickerItems(tickerItems, newItems)
    /\ probe' = [kind |-> "merge", prevItems |-> tickerItems, newItems |-> newItems]
    /\ UNCHANGED <<rev, now, phase, isLoading, error, lastUpdated, isLoadingSeen, isMounted,
                   nextTickAt, cache, rate, calls, lastInvoke, lastDone, lastRun>>

NextMerge == \E newItems \in Batches(rev) : Publish(newItems)

SpecMerge == InitMerge /\ [][NextMerge]_vars

-----------------------------------------------------------------------------
(* The mount effect as a scheduler: the invocations of fetchBtcPrice it     *)
(* makes, counted, over a clock that spans several refresh intervals.  The  *)
(* hook is taken as written and as started idle.                            *)

\* instants up to two intervals of either revision after the creation
ScheduleOffsets ==
    {0, 70000, REFRESH_INTERVAL_0, 2 * REFRESH_INTERVAL_0, REFRESH_INTERVAL,
     REFRESH_INTERVAL + 70000, 2 * REFRESH_INTERVAL}

ScheduleInstants == {Start + d : d \in ScheduleOffsets}

\* invoked counts the calls of fetchBtcPrice the effect and its interval made
InitSchedule ==
    /\ \E loading \in BOOLEAN : InitHook(loading)
    /\ probe = [kind |-> "schedule", invoked |-> 0, activatedAt |-> NoTime]

\* useEffect: the initial fetch and setInterval
Activate ==
    /\ phase = "fresh"
    /\ \E j \in Jitters :
          LET w == fetchBtcPrice(rev, World, now, TRUE, isLoadingSeen, j)
          IN  Within(w) /\ Install(w)
    /\ phase' = "active"
    /\ isMounted' = TRUE
    /\ nextTickAt' = now + RefreshInterval(rev)
    /\ probe' = [probe EXCEPT !.invoked = 1, !.activatedAt = now]
    /\ UNCHANGED <<rev, now, isLoadingSeen>>

\* the interval callback
IntervalTick(j) ==
    /\ nextTickAt # NoTime
    /\ now >= nextTickAt
    /\ LET w == fetchBtcPrice(rev, World, now, isMounted, isLoadingSeen, j)
       IN  Within(w) /\ Install(w)
    /\ nextTickAt' = nextTickAt + RefreshInterval(rev)
    /\ probe' = [probe EXCEPT !.invoked = @ + 1]
    /\ UNCHANGED <<rev, now, phase, isLoadingSeen, isMounted>>

\* time passes
Later ==
    /\ \E t \in ScheduleInstants : t > now /\ now' = t
    /\ UNCHANGED <<rev, phase, tickerItems, isLoading, error, lastUpdated, isLoadingSeen,
                   isMounted, nextTickAt, cache, rate, calls, lastInvoke, lastDone, lastRun, probe>>

NextSchedule ==
    \/ Activate
    \/ Cleanup
    \/ \E j \in Jitters : IntervalTick(j)
    \/ \E i \in DOMAIN calls, j \in Jitters :
          \E a \in AnswersFor(calls[i]) : Resume(i, a.kind, a.data, j)
    \/ Later

SpecSchedule == InitSchedule /\ [][NextSchedule]_vars

-----------------------------------------------------------------------------
(* Properties *)

C2_ActivationFetches ==
    (phase = "active" /\ lastDone = "none" /\ getCachedData(rev, cache, now).kind # "record")
        => calls # <<>>

\* C3: on the active hook the loading flag is set only while a network sequence
\* is in flight, so it is false once every sequence has returned.
C3_LoadingEnds ==
    (phase = "active" /\ calls = <<>>) => ~isLoading

\* C4: the ids on display are the ids the hook started with.
C4_IdsConstant ==
    IdsOf(tickerItems) = IdsOf(InitialItems(rev))

\* C4: a fetch succeeded, the record it cached went on display, and a later
\* refresh failed
C4_AfterSuccessAndFailure ==
    /\ lastDone = "failed"
    /\ lastUpdated # NoTime
    /\ tickerItems # InitialItems(rev)

C6_TeardownStops ==
    /\ [][phase = "torn" => Len(calls') <= Len(calls)]_vars
    /\ [](phase = "torn" => nextTickAt = NoTime)
    /\ [][(phase = "torn" /\ Cleanup) => UNCHANGED vars]_vars

\* C6: a refresh was invoked after teardown, at a time the timer would have
\* been due, with no sequence in flight
C6_RefreshAfterTeardown ==
    /\ phase = "torn"
    /\ lastInvoke = "unmounted"
    /\ calls = <<>>
    /\ now >= Start + RefreshInterval(rev)

C9_CachedRecordPublished ==
    (rev = "current" /\ phase = "active" /\ cache.kind = "record") => lastUpdated # NoTime

C15_MalformedReadsAbsent ==
    (probe # NoProbe /\ cache.kind # "record") => probe.value = Absent

C17_BetterDealIsLower ==
    probe.calc.kind = "calc"
        => LET p1 == parseFloat(probe.price1)
               p2 == parseFloat(probe.price2)
               calc == probe.calc
           IN  (Positive(p1) /\ Positive(p2) /\ Positive(parseFloat(probe.investmentAmount)))
                  => /\ (calc.betterDeal = 1) <=> NumLess(p1, p2)
                     /\ (calc.betterDeal = 2) <=> NumLess(p2, p1)
                     /\ calc.betterDeal = 1 => NumLess(calc.btc2, calc.btc1)
                     /\ calc.betterDeal = 2 => NumLess(calc.btc1, calc.btc2)

\* C18: when the persisted window is still open and holds the ceiling of calls, an
\* invocation that reaches the rate check is suspended without touching the
\* counter, until the window's end or later; the step that ends the suspension
\* comes at or after that instant, writes a window starting now with count 1, and
\* only then goes on to the request.
C18_WaitsOutTheWindow ==
    [][\A k \in Callers :
          LET c == probe.callers[k]
              d == probe'.callers[k]
          IN  /\ (/\ c.pc \in {"idle", "backoff"}
                  /\ d # c
                  /\ rate.kind = "record"
                  /\ now - rate.timestamp <= RATE_LIMIT_WINDOW
                  /\ rate.count >= RateLimitCeiling(rev))
                    => /\ d.pc = "admitWait"
                       /\ rate' = rate
                       /\ d.wakeAt - now >= (rate.timestamp + RATE_LIMIT_WINDOW) - now
              /\ (c.pc = "admitWait" /\ d # c)
                    => /\ now >= c.wakeAt
                       /\ rate' = RateRecord(now, 1)
                       /\ d.pc \in {"delay", "net"}]_vars

\* C18: an invocation found the window full, slept, and is past the rate check
\* with the fresh window of one call it wrote
C18_AdmittedAfterWait ==
    \E k \in Callers :
        /\ probe.kind = "limiter"
        /\ probe.callers[k].waited
        /\ probe.callers[k].pc \in {"delay", "net"}
        /\ rate = RateRecord(now, 1)
        /\ now >= (Start - 1000) + RATE_LIMIT_WINDOW

C20_RateLimitKeepsBudget ==
    \A k \in Callers :
        probe.callers[k].credit # NoCredit
            => /\ probe.callers[k].last # "threw"
               /\ probe.callers[k].retries = probe.callers[k].credit

\* C21: in the current revision the step in which an invocation receives a 429
\* suspends it for a cooldown longer than the rate-limit window, whatever the
\* counter holds, and the step that ends the cooldown writes a window starting
\* now with a count of at most 1.
C21_CooldownOutlastsWindow ==
    [][\A k \in Callers :
          LET c == probe.callers[k]
              d == probe'.callers[k]
          IN  rev = "current"
                => /\ (c.pc = "net" /\ d # c /\ d.credit # NoCredit)
                         => /\ d.pc = "cooldown"
                            /\ rate' = rate
                            /\ d.wakeAt - now > RATE_LIMIT_WINDOW
                   /\ (c.pc = "cooldown" /\ d # c)
                         => /\ rate'.kind = "record"
                            /\ rate'.timestamp = now
                            /\ rate'.count <= 1]_vars

\* C22: the sleep requested before the k-th retry of an invocation started with
\* backoff B is min(B * 2^(k-1), cap) plus a jitter below the jitter ceiling, and
\* the attempt that follows the sleep carries twice the backoff, at most the cap.
C22_BackoffDoublesToCap ==
    [][\A k \in Callers :
          LET c == probe.callers[k]
              d == probe'.callers[k]
              n == (d.budget - d.retries) + 1
          IN  /\ (d.pc = "backoff" /\ d # c)
                    => /\ d.backoff = Min(d.base * 2 ^ (n - 1), MAX_BACKOFF)
                       /\ (d.wakeAt - now) - d.backoff \in 0..(JITTER_CEILING - 1)
              /\ (c.pc = "backoff" /\ d # c /\ d.pc # "idle")
                    => /\ d.backoff = Min(2 * c.backoff, MAX_BACKOFF)
                       /\ d.backoff <= MAX_BACKOFF
                       /\ d.retries = c.retries - 1]_vars

\* C22: an invocation sleeps before its third retry with the backoff at the cap
C22_ThirdRetryAtCap ==
    \E k \in Callers :
        /\ probe.kind = "limiter"
        /\ probe.callers[k].pc = "backoff"
        /\ probe.callers[k].budget - probe.callers[k].retries = 2
        /\ probe.callers[k].backoff = MAX_BACKOFF
        /\ probe.callers[k].base * 4 > MAX_BACKOFF

\* C23: an invocation started with R retries whose every failure was a failed
\* request other than a 429 has, when it rejects, issued exactly R + 1 requests
\* and rejects with the error of the last one.  Every invocation terminates: it
\* never issues more than R + 1 requests, its retries never go below 0, and each
\* of its steps ends it, starts the next attempt with one retry less, or moves it
\* to a later await of the same attempt.
C23_ExhaustsBudget ==
    /\ [](\A k \in Callers :
            LET c == probe.callers[k]
            IN  /\ c.attempts <= c.budget + 1
                /\ c.retries \in 0..c.budget
                /\ (c.pc = "idle" /\ c.last = "threw" /\ c.seen = {"error"})
                      => /\ c.attempts = c.budget + 1
                         /\ c.retries = 0
                         /\ c.thrown = Failure("error", c.attempts))
    /\ [][\A k \in Callers :
            LET c == probe.callers[k]
                d == probe'.callers[k]
            IN  (c.pc # "idle" /\ d # c)
                  => \/ d.pc = "idle"
                     \/ d.retries = c.retries - 1
                     \/ d.retries = c.retries /\ AwaitRank(d.pc) > AwaitRank(c.pc)]_vars

\* C23: an invocation started with 3 retries rejected after four failed requests
C23_FourFailedAttempts ==
    \E k \in Callers :
        /\ probe.kind = "limiter"
        /\ probe.callers[k].pc = "idle"
        /\ probe.callers[k].last = "threw"
        /\ probe.callers[k].seen = {"error"}
        /\ probe.callers[k].budget = 3
        /\ probe.callers[k].attempts = 4

\* C24: every request of an invocation, the first and each retry, is issued after
\* exactly one counter write of the rate check since the invocation's previous
\* request, and each such write stores a window of one call starting now or the
\* stored window with its count raised by one; the write is in storage when the
\* request is issued.
C24_AdmitBeforeEveryAttempt ==
    [][\A k \in Callers :
          LET c == probe.callers[k]
              d == probe'.callers[k]
          IN  /\ d.attempts # c.attempts
                    => /\ d.attempts = c.attempts + 1
                       /\ d.admits = 1
                       /\ rate'.kind = "record"
              /\ d.admits = c.admits + 1
                    => /\ c.admits = 0
                       /\ \/ rate' = RateRecord(now, 1)
                          \/ /\ rate.kind = "record"
                             /\ rate' = RateRecord(rate.timestamp, rate.count + 1)]_vars

\* C24: an invocation is awaiting the answer to a retry
C24_RetryIssued ==
    \E k \in Callers :
        /\ probe.kind = "limiter"
        /\ probe.callers[k].pc = "net"
        /\ probe.callers[k].attempts >= 2
        /\ probe.callers[k].admits = 1
        /\ rate.kind = "record"

\* C25: a record written with saveToCache(items) and read back with
\* getCachedData() at the same instant is a record whose items equal the written
\* ones and whose timestamp is not earlier than the time of the write.
C25_RoundTrip ==
    probe.kind = "loaded"
        => /\ probe.value.kind = "record"
           /\ probe.value.items = probe.items
           /\ probe.value.lastUpdated >= probe.savedAt

\* C26: the cross-ratio item derived from a complete response has the price
\* price(bitcoin) / price(ethereum) and the 24h change
\* (change(bitcoin) - change(ethereum)) / (1 + change(ethereum) / 100), or 0 when
\* that is not a finite number.
C26_CrossRatioChange ==
    probe.kind = "derived"
        => LET b == probe.data.bitcoin
               e == probe.data.ethereum
               raw == NumDiv(NumSub(b.price_change_percentage_24h,
                                    e.price_change_percentage_24h),
                             NumAdd(Rat(1, 1),
                                    NumDiv(e.price_change_percentage_24h, Rat(100, 1))))
           IN  \A i \in DOMAIN probe.items :
                  probe.items[i].id = "btc-eth"
                      => /\ probe.items[i].priceChange24h
                               = IF IsFinite(raw) THEN raw ELSE Rat(0, 1)
                         /\ probe.items[i].currentPrice
                               = NumDiv(b.current_price, e.current_price)

\* C27: after a batch is published the tracked items are the same ids in the same
\* order; an item whose id occurs in the batch equals a batch entry of that id,
\* an item whose id does not occur is what it was, and entries with an unknown id
\* leave no trace.
C27_MergeById ==
    probe.kind = "merge"
        => /\ DOMAIN tickerItems = DOMAIN probe.prevItems
           /\ \A i \in DOMAIN tickerItems :
                 /\ tickerItems[i].id = probe.prevItems[i].id
                 /\ tickerItems[i].id \in IdsOf(probe.newItems)
                       => \E j \in DOMAIN probe.newItems : tickerItems[i] = probe.newItems[j]
                 /\ tickerItems[i].id \notin IdsOf(probe.newItems)
                       => tickerItems[i] = probe.prevItems[i]

\* C27: a batch with one tracked and one unknown id was published over items of
\* which another already had a price
C27_PartialBatch ==
    /\ probe.kind = "merge"
    /\ Len(probe.newItems) = 2
    /\ UnknownId \in IdsOf(probe.newItems)
    /\ "btc-usd" \in IdsOf(probe.newItems)
    /\ \E i \in DOMAIN tickerItems :
          /\ tickerItems[i].id = "btc-eth"
          /\ tickerItems[i].currentPrice # Null
          /\ tickerItems[i] = probe.prevItems[i]

\* C28: activation invokes fetchBtcPrice at once and arms the interval; while the
\* hook is active the effect has made one invocation at activation plus one per
\* interval passed, the next one being due one interval after the last; a due
\* tick can run whatever the state the previous cycle left; before activation
\* and after teardown no tick is due and no invocation is made.
C28_OneInvocationPerInterval ==
    /\ [](/\ phase = "fresh" => (probe.invoked = 0 /\ nextTickAt = NoTime)
          /\ phase = "torn" => nextTickAt = NoTime
          /\ phase = "active"
                => /\ probe.invoked >= 1
                   /\ lastInvoke # "none"
                   /\ nextTickAt = probe.activatedAt + probe.invoked * RefreshInterval(rev)
          /\ (phase = "active" /\ now >= nextTickAt /\ calls = <<>>)
                => ENABLED (\E j \in Jitters : IntervalTick(j)))
    /\ [][probe'.invoked # probe.invoked
            => /\ probe'.invoked = probe.invoked + 1
               /\ phase' = "active"
               /\ lastInvoke' # "none"
               /\ \/ phase = "fresh" /\ probe'.activatedAt = now
                  \/ phase = "active" /\ now >= nextTickAt]_vars

\* C28: the second tick has started a cycle after the previous one failed
C28_TickAfterFailure ==
    /\ probe.kind = "schedule"
    /\ phase = "active"
    /\ probe.invoked = 3
    /\ lastDone = "failed"
    /\ lastInvoke = "started"
    /\ Len(calls) = 1

\* C29: a refresh issues at most 2 * (MAX_RETRIES + 1) requests, at most
\* MAX_RETRIES + 1 of them for the primary set; it moves from the primary to
\* the fallback set only when the primary sequence has no retry left (a pending
\* backoff consumes one when it ends), the fallback
\* sequence starts with the full retry budget and the base backoff, and the
\* budget of a refresh is never raised otherwise, so there is no third sequence.
C29_AtMostTwoSequences ==
    /\ [](/\ lastRun.attempts <= 2 * (MaxRetries(rev) + 1)
          /\ \A i \in DOMAIN calls :
                /\ calls[i].attempts <= 2 * (MaxRetries(rev) + 1)
                /\ calls[i].seq \in {"primary", "fallback"}
                /\ calls[i].seq = "primary" => calls[i].attempts <= MaxRetries(rev) + 1
                /\ calls[i].seq = "fallback" => rev = "current")
    /\ [][Len(calls') = Len(calls)
            => \A i \in DOMAIN calls :
                  (calls'[i].seq # calls[i].seq \/ calls'[i].retries > calls[i].retries)
                      => /\ calls[i].seq = "primary"
                         /\ calls'[i].seq = "fallback"
                         /\ calls[i].retries = IF calls[i].pc = "backoff" THEN 1 ELSE 0
                         /\ calls'[i].retries = MaxRetries(rev)
                         /\ calls'[i].backoff = BaseBackoff(rev)]_vars

\* C29: a refresh ended after the primary and the fallback sequence each used
\* every attempt
C29_BothSequencesExhausted ==
    /\ rev = "current"
    /\ calls = <<>>
    /\ lastRun.cause = "rejected"
    /\ lastRun.attempts = 2 * (MAX_RETRIES + 1)

C31_LastUpdatedMonotone ==
    /\ [](lastUpdated # NoTime => lastUpdated <= now)
    /\ [][lastUpdated' # lastUpdated
            => /\ lastUpdated' > lastUpdated
               /\ \/ /\ getCachedData(rev, cache, now).kind = "record"
                     /\ lastUpdated' = cache.lastUpdated
                     /\ cache' = cache
                  \/ /\ lastDone' = "succeeded"
                     /\ lastUpdated' = now
                     /\ cache'.kind = "record"
                     /\ cache'.lastUpdated = now]_vars

\* C31: a fetch succeeded after the start and a later refresh published the
\* record it cached
C31_FetchedThenCached ==
    /\ lastDone = "fresh"
    /\ lastUpdated > Start
    /\ cache.kind = "record"
    /\ lastUpdated = cache.lastUpdated

=============================================================================
